---- MODULE Spec2Model ----
(***************************************************************************)
(* Model of the fitness tracker (src/app.js): the IndexedDB object stores  *)
(* dailyData and weights, the click handlers that save to them, and the    *)
(* render functions that read them back into the page.                     *)
(*                                                                         *)
(* Numbers are fixed-point integers in tenths (1.5 is 15), so that         *)
(* parseInt and parseFloat differ.  A JavaScript object is a function      *)
(* whose DOMAIN is the set of properties it has.  An optional value        *)
(* (NaN, undefined, a missing record) is the empty sequence, a present     *)
(* one is a one-element sequence.                                          *)
(*                                                                         *)
(* IndexedDB runs the transactions of one object store in the order they   *)
(* were created; a handler that awaits a request continues when the        *)
(* request's transaction reaches the head of the queue.  A put request     *)
(* can fail (request.onerror), succeed and commit, or succeed and then     *)
(* have its transaction abort at commit time (quota, I/O error).           *)
(***************************************************************************)
EXTENDS Integers, Sequences, FiniteSets, TLC

VARIABLES
    session,        \* DOMContentLoaded handler: "loading", "ready", "failed"
    db,             \* module-level handle `db` is set
    today,          \* new Date().toISOString().split('T')[0], as a day index
    activeTab,      \* tab shown by showTab
    inputs,         \* value of each <input> element
    dailyData,      \* object store dailyData: date -> record
    weights,        \* object store weights: date -> record
    qDaily,         \* transactions created on dailyData, oldest first
    qWeights,       \* transactions created on weights, oldest first
    report,         \* text of the last alert()
    display,        \* text of the Daily Summary spans
    weightHistory,  \* entries listed in #weightHistory
    applied,        \* history: per date, the last save whose write committed
    last,           \* history: what the last step did
    events,         \* number of user events so far
    now,            \* new Date(): the host's clock
    zone,           \* the host's time zone
    todayWorkoutSummary,    \* content of #todayWorkoutSummary
    weeklyScheduleDisplay,  \* content of #weeklyScheduleDisplay
    opens,          \* number of indexedDB.open requests so far
    objectStores    \* names of the object stores of FitnessTrackerDB

vars == <<session, db, today, activeTab, inputs, dailyData, weights,
          qDaily, qWeights, report, display, weightHistory, applied, last,
          events, now, zone, todayWorkoutSummary, weeklyScheduleDisplay,
          opens, objectStores>>

database == <<opens, objectStores>>

calendar == <<now, zone, todayWorkoutSummary, weeklyScheduleDisplay>>

\* ---------------------------------------------------------------- bounds
MaxDate == 2
MaxInFlight == 2
MaxEvents == 4
MaxWeek == 27

Dates == 1..MaxDate

\* ------------------------------------------------------------- constants
Tabs == {"dashboard", "schedule", "trackers", "recipes"}

DailyInputs == {"stepsInput", "waterInput", "calorieInput", "proteinInput",
                "carbInput", "fatInput"}
InputIds == DailyInputs \cup {"weightInput"}

MacroFields == {"calories", "protein", "carbs", "fat"}
DailyFields == {"steps", "water"} \cup MacroFields

\* what the user types into each field
Typeable ==
    [stepsInput   |-> {"", "2"},
     waterInput   |-> {"", "1.5"},
     calorieInput |-> {"", "1.5"},
     proteinInput |-> {"", "-1"},
     carbInput    |-> {"", "0"},
     fatInput     |-> {"", "2"},
     weightInput  |-> {"", "0", "-1", "1.5", "2"}]

\* --------------------------------------------------- numbers and strings
NumRange == -40..40

Abs(n) == IF n < 0 THEN -n ELSE n

\* String(n) for a number in tenths
NumToStr(n) ==
    (IF n < 0 THEN "-" ELSE "")
      \o ToString(Abs(n) \div 10)
      \o (IF Abs(n) % 10 = 0 THEN "" ELSE "." \o ToString(Abs(n) % 10))

\* parseFloat(s): <<>> is NaN
parseFloat(s) ==
    IF \E n \in NumRange : NumToStr(n) = s
    THEN <<CHOOSE n \in NumRange : NumToStr(n) = s>>
    ELSE <<>>

\* parseInt(s): the integer part, truncated towards zero
parseInt(s) ==
    LET f == parseFloat(s) IN
    IF f = <<>> THEN <<>>
    ELSE IF f[1] >= 0 THEN <<(f[1] \div 10) * 10>>
         ELSE <<-((Abs(f[1]) \div 10) * 10)>>

\* x || 0
OrZero(x) == IF x = <<>> THEN 0 ELSE x[1]

\* obj.f || ''  written into an input element
OrEmpty(obj, f) ==
    IF f \in DOMAIN obj /\ obj[f] # 0 THEN NumToStr(obj[f]) ELSE ""

\* ------------------------------------------------------------ javascript
\* { ...a, ...b }: the properties of b win
Spread(a, b) == b @@ a

\* the record under key k of an object store, <<>> when there is none
Lookup(store, k) == IF k \in DOMAIN store THEN <<store[k]>> ELSE <<>>

\* a put that replaces the whole content of the store
StorePutReplacing(store, rec) == [k \in {rec.date} |-> rec]

\* store.put(rec) on an object store with keyPath 'date'
StorePut(store, rec) ==
    [k \in DOMAIN store \cup {rec.date} |->
        IF k = rec.date THEN rec ELSE store[k]]

\* ---------------------------------------------------------- transactions
\* op: the request; cont: the handler awaiting it; date: the handler's
\* `today`; data: the values the handler parsed from the form; rec: the
\* record of a put.  read and alone are history: what the handler's get
\* returned, and that no other save on the date overlapped it.
Tx(op, cont, date, data, rec, read, alone) ==
    [op |-> op, cont |-> cont, date |-> date, data |-> data, rec |-> rec,
     read |-> read, alone |-> alone]

NoData == <<>>

IsSave(tx) == tx.cont \in {"daily", "macro"}

\* saveDailyData(date, data): store.put({ date, ...data })
saveDailyData(cont, date, data, merged, read, alone) ==
    Tx("put", cont, date, data, Spread([date |-> date], merged), read, alone)

\* getDailyData(date): store.get(date)
getDailyData(cont, date, data, alone) ==
    Tx("get", cont, date, data, NoData, <<>>, alone)

\* saveWeight(date, weight): store.put({ date, weight })
saveWeight(date, weight) ==
    Tx("put", "weight", date, [weight |-> weight],
       [date |-> date, weight |-> weight], <<>>, TRUE)

\* getAllWeights(): store.getAll()
getAllWeights == Tx("getAll", "history", 0, NoData, NoData, <<>>, TRUE)

\* a save on date d starts: the saves on d already in flight overlap it
Overlapped(q, d) ==
    [i \in 1..Len(q) |->
        IF IsSave(q[i]) /\ q[i].date = d
        THEN [q[i] EXCEPT !.alone = FALSE] ELSE q[i]]

NoneInFlight(q, d) == \A i \in 1..Len(q) : ~(IsSave(q[i]) /\ q[i].date = d)

\* ------------------------------------------------------- history records
\* prev: the record under the date before the step; prior: the last save
\* committed on the date before the step
Step(act, tx, outcome, prev, prior) ==
    [act |-> act, cont |-> tx.cont, outcome |-> outcome, date |-> tx.date,
     data |-> tx.data, rec |-> tx.rec, read |-> tx.read, alone |-> tx.alone,
     prev |-> prev, prior |-> prior]

NoTx == Tx("none", "none", 0, NoData, NoData, <<>>, TRUE)
\* a step that is no request of a transaction
UserStep == Step("none", NoTx, "none", <<>>, <<>>)

\* a click whose handler refused to save
RefusedStep(cont) ==
    Step("refused", [NoTx EXCEPT !.cont = cont], "none", <<>>, <<>>)

\* ------------------------------------------------------------- the forms
\* the six values read by the Save Today's Progress handler
DailyFormData(inp) ==
    [steps    |-> OrZero(parseInt(inp["stepsInput"])),
     water    |-> OrZero(parseFloat(inp["waterInput"])),
     calories |-> OrZero(parseInt(inp["calorieInput"])),
     protein  |-> OrZero(parseInt(inp["proteinInput"])),
     carbs    |-> OrZero(parseInt(inp["carbInput"])),
     fat      |-> OrZero(parseInt(inp["fatInput"]))]

\* the four values read by the Save Macros handler
MacroFormData(inp) ==
    [calories |-> OrZero(parseInt(inp["calorieInput"])),
     protein  |-> OrZero(parseInt(inp["proteinInput"])),
     carbs    |-> OrZero(parseInt(inp["carbInput"])),
     fat      |-> OrZero(parseInt(inp["fatInput"]))]

\* calories || protein || carbs || fat
AnyMacro(m) == \E f \in MacroFields : m[f] # 0

\* a merge that adds the submitted macros to the stored ones
MergeMacrosAdding(existing, m) ==
    LET old == IF existing = <<>> THEN <<>> ELSE existing[1] IN
    Spread(old, [f \in MacroFields |->
                    m[f] + (IF f \in DOMAIN old THEN old[f] ELSE 0)])

\* { ...existingData, calories, protein, carbs, fat }, existingData being
\* the record read or {}
MergeMacros(existing, m) ==
    Spread(IF existing = <<>> THEN <<>> ELSE existing[1], m)

\* the input values renderDashboardData writes back
Prefill(inp, data) ==
    [id \in InputIds |->
        CASE id = "stepsInput"   -> IF data = <<>> THEN "" ELSE OrEmpty(data[1], "steps")
          [] id = "waterInput"   -> IF data = <<>> THEN "" ELSE OrEmpty(data[1], "water")
          [] id = "calorieInput" -> IF data = <<>> THEN "" ELSE OrEmpty(data[1], "calories")
          [] id = "proteinInput" -> IF data = <<>> THEN "" ELSE OrEmpty(data[1], "protein")
          [] id = "carbInput"    -> IF data = <<>> THEN "" ELSE OrEmpty(data[1], "carbs")
          [] id = "fatInput"     -> IF data = <<>> THEN "" ELSE OrEmpty(data[1], "fat")
          [] OTHER               -> inp[id]]

\* data ? data.f || 0 : 0
Shown(data, f) ==
    IF data # <<>> /\ f \in DOMAIN data[1] THEN NumToStr(data[1][f]) ELSE "0"

\* the Daily Summary spans renderDashboardData fills
Summary(data) ==
    [displaySteps    |-> Shown(data, "steps"),
     displayWater    |-> Shown(data, "water") \o " L",
     displayCalories |-> Shown(data, "calories"),
     displayProtein  |-> Shown(data, "protein") \o "g",
     displayCarbs    |-> Shown(data, "carbs") \o "g",
     displayFat      |-> Shown(data, "fat") \o "g"]

\* weights.sort((a, b) => new Date(b.date) - new Date(a.date))
RECURSIVE SortDesc(_)
SortDesc(recs) ==
    IF recs = {} THEN <<>>
    ELSE LET top == CHOOSE r \in recs : \A o \in recs : o.date <= r.date
         IN <<top>> \o SortDesc(recs \ {top})

\* store.getAll()
GetAll(store) == {store[k] : k \in DOMAIN store}

\* renderContent(tabId): the reads a tab starts
RenderDaily(q, d) == Append(q, getDailyData("render", d, NoData, TRUE))
RenderWeights(q) == Append(q, getAllWeights)

\* ------------------------------------------------------------- calendar
\* An instant is a whole number of hours counted from 2025-07-07T00:00Z; a
\* day index counts calendar days from 2025-07-07.
HoursPerDay == 24

DaysPerWeek == 7

TotalWeeks == 26

PROGRAM_START_DATE == 0

\* The host's time zone: its UTC offset before and after one change of
\* offset, in hours.
Zone(name, before, change, after) ==
    [name |-> name, before |-> before, change |-> change, after |-> after]

\* no daylight saving
UTC == Zone("UTC", 0, 0, 0)

\* EDT until 2025-11-02T06:00Z, then EST
NewYork == Zone("America/New_York", 0 - 4, 118 * HoursPerDay + 6, 0 - 5)

\* BST until 2025-10-26T01:00Z, then GMT
London == Zone("Europe/London", 1, 111 * HoursPerDay + 1, 0)

\* AEST until 2025-10-04T16:00Z, then AEDT
Sydney == Zone("Australia/Sydney", 10, 89 * HoursPerDay + 16, 11)

Zones == {UTC, NewYork, London, Sydney}

Offset(z, t) == IF t < z.change THEN z.before ELSE z.after

\* the calendar day of instant t on the host's clock
LocalDay(z, t) == (t + Offset(z, t)) \div HoursPerDay

\* date.setHours(0, 0, 0, 0): midnight of the local day of t
setHours0(z, t) ==
    CHOOSE m \in {LocalDay(z, t) * HoursPerDay - z.before,
                  LocalDay(z, t) * HoursPerDay - z.after} :
        m + Offset(z, m) = LocalDay(z, t) * HoursPerDay

\* new Date('YYYY-MM-DD'): a date-only string is midnight UTC
DateParse(dateStr) == dateStr * HoursPerDay

\* Math.ceil(Math.abs(today - startDate) / (1000 * 60 * 60 * 24))
DiffDays(z, t, startDateStr) ==
    (Abs(setHours0(z, t) - setHours0(z, DateParse(startDateStr)))
        + HoursPerDay - 1) \div HoursPerDay

getWeekAndDay(z, t, startDateStr) ==
    IF setHours0(z, t) < setHours0(z, DateParse(startDateStr))
    THEN [week |-> 0, day |-> 0]
    ELSE [week |-> DiffDays(z, t, startDateStr) \div DaysPerWeek + 1,
          day |-> (DiffDays(z, t, startDateStr) % DaysPerWeek) + 1]

\* an entry of WORKOUT_PLAN: its type and the length of its exercises
\* (0 when the entry has no exercises property)
Entry(type, exercises) == [type |-> type, exercises |-> exercises]

WORKOUT_PLAN ==
    1 :> <<Entry("Full Body Strength A", 5),
         Entry("Active Recovery / Light Cardio", 2),
         Entry("Full Body Strength B", 5),
         Entry("Rest", 0),
         Entry("Full Body Strength A", 5),
         Entry("Active Recovery / Light Cardio", 2),
         Entry("Rest", 0)>> @@
    2 :> <<Entry("Full Body Strength A", 5),
         Entry("HIIT Cardio", 2),
         Entry("Full Body Strength B", 5),
         Entry("Rest", 0),
         Entry("Full Body Strength C (Circuit)", 5),
         Entry("Active Recovery / Stretching", 2),
         Entry("Rest", 0)>> @@
    3 :> <<Entry("Full Body Strength A", 5),
         Entry("HIIT Cardio", 2),
         Entry("Full Body Strength B", 5),
         Entry("Rest", 0),
         Entry("Full Body Strength C (Circuit)", 5),
         Entry("Active Recovery / Mobility", 2),
         Entry("Rest", 0)>> @@
    5 :> <<Entry("Upper Body Strength A", 5),
         Entry("Lower Body & Core", 5),
         Entry("HIIT Cardio / Skipping", 2),
         Entry("Rest", 0),
         Entry("Upper Body Strength B", 5),
         Entry("Active Recovery / Core Stability", 3),
         Entry("Rest", 0)>> @@
    6 :> <<Entry("Upper Body Strength A", 5),
         Entry("Lower Body & Core", 5),
         Entry("HIIT Cardio / Agility", 3),
         Entry("Rest", 0),
         Entry("Upper Body Strength B", 5),
         Entry("Yoga/Mobility Flow", 1),
         Entry("Rest", 0)>> @@
    9 :> <<Entry("Upper Body Strength A - High Volume", 6),
         Entry("Lower Body & Core - Strength Focus", 5),
         Entry("Interval Cardio / Skipping & Bodyweight", 3),
         Entry("Rest / Light Walk", 0),
         Entry("Full Body Circuit - Conditioning", 5),
         Entry("Mobility & Stretching", 2),
         Entry("Rest", 0)>> @@
    20 :> <<Entry("Upper Body Hypertrophy", 6),
         Entry("Lower Body & Core - Power Focus", 5),
         Entry("HIIT & Conditioning Circuit", 6),
         Entry("Rest", 0),
         Entry("Full Body Metabolic Finisher", 6),
         Entry("Long Duration Steady State Cardio / Active Recovery", 2),
         Entry("Rest", 0)>>

\* a test that never ends the program
ProgramOverNever(week) == week = 0

\* week > 26 || week === 0
ProgramOver(week) == week > TotalWeeks \/ week = 0

\* content of #todayWorkoutSummary: which text, the week and the day it
\* prints (<<>> when it prints none), the workout's type and exercises
TodayView(kind, week, day, type, exercises) ==
    [kind |-> kind, week |-> week, day |-> day, type |-> type,
     exercises |-> exercises]

NoTodayView == TodayView("empty", <<>>, <<>>, "", 0)

renderTodayWorkout(z, t) ==
    LET week == getWeekAndDay(z, t, PROGRAM_START_DATE).week
        day == getWeekAndDay(z, t, PROGRAM_START_DATE).day
    IN  IF ProgramOver(week)
        THEN TodayView("completedOrNotStarted", <<week>>, <<day>>, "", 0)
        ELSE IF week \in DOMAIN WORKOUT_PLAN
        THEN IF day \in DOMAIN WORKOUT_PLAN[week]
             THEN TodayView("workout", <<week>>, <<day>>,
                            WORKOUT_PLAN[week][day].type,
                            WORKOUT_PLAN[week][day].exercises)
             ELSE TodayView("noWorkoutPlanned", <<week>>, <<day>>, "", 0)
        ELSE TodayView("noWeekData", <<week>>, <<>>, "", 0)

\* content of #weeklyScheduleDisplay: which text, and the day divs
WeekView(kind, rows) == [kind |-> kind, rows |-> rows]

NoWeekView == WeekView("empty", <<>>)

\* a weekly view that marks the day of the week of the host's date
renderWeeklyScheduleByWeekday(z, t) ==
    LET currentWeekNum == getWeekAndDay(z, t, PROGRAM_START_DATE).week
        currentDayNum == (LocalDay(z, t) % DaysPerWeek) + 1
    IN  IF ProgramOver(currentWeekNum)
        THEN WeekView("completedOrNotStarted", <<>>)
        ELSE IF currentWeekNum \notin DOMAIN WORKOUT_PLAN
        THEN WeekView("noPlan", <<>>)
        ELSE WeekView("days",
               [i \in 1..DaysPerWeek |->
                  [day |-> i,
                   date |-> LocalDay(z, DateParse(PROGRAM_START_DATE))
                              + (currentWeekNum - 1) * DaysPerWeek + (i - 1),
                   type |-> IF i \in DOMAIN WORKOUT_PLAN[currentWeekNum]
                            THEN WORKOUT_PLAN[currentWeekNum][i].type
                            ELSE "Rest/Active Recovery",
                   current |-> i = currentDayNum]])

renderWeeklySchedule(z, t) ==
    LET currentWeekNum == getWeekAndDay(z, t, PROGRAM_START_DATE).week
        currentDayNum == getWeekAndDay(z, t, PROGRAM_START_DATE).day
    IN  IF ProgramOver(currentWeekNum)
        THEN WeekView("completedOrNotStarted", <<>>)
        ELSE IF currentWeekNum \notin DOMAIN WORKOUT_PLAN
        THEN WeekView("noPlan", <<>>)
        ELSE WeekView("days",
               [i \in 1..DaysPerWeek |->
                  [day |-> i,
                   date |-> LocalDay(z, DateParse(PROGRAM_START_DATE))
                              + (currentWeekNum - 1) * DaysPerWeek + (i - 1),
                   type |-> IF i \in DOMAIN WORKOUT_PLAN[currentWeekNum]
                            THEN WORKOUT_PLAN[currentWeekNum][i].type
                            ELSE "Rest/Active Recovery",
                   current |-> i = currentDayNum]])

\* ------------------------------------------------------------------ Init
NoSummary ==
    [displaySteps |-> "0", displayWater |-> "0 L", displayCalories |-> "0",
     displayProtein |-> "0g", displayCarbs |-> "0g", displayFat |-> "0g"]

\* ------------------------------------------------------------ the database
DB_VERSION == 1

ObjectStoreNames == {"dailyData", "weights"}

\* the version of FitnessTrackerDB before an open: 0 when it does not exist
OldVersion(stores) == IF stores = {} THEN 0 ELSE DB_VERSION

\* onupgradeneeded, fired when the version is raised: both stores are created
onupgradeneeded(stores) ==
    IF OldVersion(stores) < DB_VERSION THEN ObjectStoreNames ELSE stores

\* an open that creates its stores anew every time
OpenedStoreRecreated(stores, store) == <<>>

\* the records of an object store after indexedDB.open: createObjectStore
\* makes an empty store, an open without upgrade leaves the store alone
OpenedStore(stores, store) ==
    IF OldVersion(stores) < DB_VERSION THEN <<>> ELSE store

\* a data function that opens the database on every call
EnsureOpenAlways(handle, n) == n + 1

\* if (!db) await openDatabase(): the number of opens after it
EnsureOpen(handle, n) == IF handle THEN n ELSE n + 1

\* records an earlier session may have left
ExistingDaily ==
    {<<>>,
     1 :> [date |-> 1, steps |-> 20, water |-> 15, calories |-> 10,
           protein |-> 0, carbs |-> 0, fat |-> 20]}

ExistingWeights == {<<>>, 1 :> [date |-> 1, weight |-> 15]}

\* the first visit: no database yet
NoDatabase ==
    /\ objectStores = {}
    /\ dailyData = <<>>
    /\ weights = <<>>

\* a later visit: the database of an earlier session
ExistingDatabase ==
    /\ objectStores = ObjectStoreNames
    /\ dailyData \in ExistingDaily
    /\ weights \in ExistingWeights

\* the page before DOMContentLoaded
InitPage ==
    /\ session = "loading"
    /\ db = FALSE
    /\ today = 1
    /\ activeTab = "dashboard"
    /\ inputs = [id \in InputIds |-> ""]
    /\ opens = 0
    /\ qDaily = <<>>
    /\ qWeights = <<>>
    /\ report = ""
    /\ display = NoSummary
    /\ weightHistory = <<>>
    /\ applied = [d \in Dates |-> <<>>]
    /\ last = UserStep
    /\ events = 0
    /\ todayWorkoutSummary = NoTodayView
    /\ weeklyScheduleDisplay = NoWeekView

\* a page loaded at 2025-07-07T00:00Z on a host in UTC
Init ==
    /\ InitPage
    /\ NoDatabase
    /\ now = DateParse(PROGRAM_START_DATE)
    /\ zone = UTC

\* the same page on a first or a later visit
InitSessions ==
    /\ InitPage
    /\ NoDatabase \/ ExistingDatabase
    /\ now = DateParse(PROGRAM_START_DATE)
    /\ zone = UTC

\* the instants a page is loaded at: four hours of each day from two days
\* before the program to the end of week MaxWeek
LoadInstants ==
    {d * HoursPerDay + h :
        d \in (0 - 2)..(MaxWeek * DaysPerWeek - 1), h \in {0, 5, 12, 23}}

\* a page loaded at any of these instants on a host in any of the zones
InitCalendar ==
    /\ InitPage
    /\ NoDatabase
    /\ now \in LoadInstants
    /\ zone \in Zones

\* ----------------------------------------------------------- page load
\* DOMContentLoaded: openDatabase() succeeds, showTab(initialTab), the
\* listeners are registered, then the initial renderDashboardData and
\* renderTodayWorkout.  showTab(initialTab) runs before the declaration
\* `const PROGRAM_START_DATE` is evaluated: its renderTodayWorkout or
\* renderWeeklySchedule throws a ReferenceError inside the async
\* renderContent, after renderDashboardData was called and after
\* weeklyScheduleDisplay was cleared.
OpenDatabase(tabs) ==
    /\ session = "loading"
    /\ \E initialTab \in tabs :
         /\ activeTab' = initialTab
         /\ qDaily' = IF initialTab = "dashboard"
                      THEN RenderDaily(RenderDaily(qDaily, today), today)
                      ELSE RenderDaily(qDaily, today)
         /\ qWeights' = IF initialTab = "trackers"
                        THEN RenderWeights(qWeights) ELSE qWeights
         /\ weeklyScheduleDisplay' = IF initialTab = "schedule"
                                     THEN NoWeekView
                                     ELSE weeklyScheduleDisplay
    /\ session' = "ready"
    /\ db' = TRUE
    /\ last' = UserStep
    /\ todayWorkoutSummary' = renderTodayWorkout(zone, now)
    /\ opens' = opens + 1
    /\ objectStores' = onupgradeneeded(objectStores)
    /\ dailyData' = OpenedStore(objectStores, dailyData)
    /\ weights' = OpenedStore(objectStores, weights)
    /\ UNCHANGED <<today, inputs, report, display, weightHistory, applied,
                   events, now, zone>>

\* request.onerror of indexedDB.open: the handler rejects and stops
OpenDatabaseError ==
    /\ session = "loading"
    /\ session' = "failed"
    /\ opens' = opens + 1
    /\ last' = UserStep
    /\ UNCHANGED <<db, today, activeTab, inputs, dailyData, weights, qDaily,
                   qWeights, report, display, weightHistory, applied, events>>
    /\ UNCHANGED calendar
    /\ UNCHANGED objectStores

\* ----------------------------------------------------------- user events
UserEvent ==
    /\ events < MaxEvents
    /\ events' = events + 1

\* a day passes on the host's clock
Tick ==
    /\ UserEvent
    /\ today < MaxDate
    /\ today' = today + 1
    /\ now' = now + HoursPerDay
    /\ last' = UserStep
    /\ UNCHANGED <<session, db, activeTab, inputs, dailyData, weights, qDaily,
                   qWeights, report, display, weightHistory, applied>>
    /\ UNCHANGED <<zone, todayWorkoutSummary, weeklyScheduleDisplay>>
    /\ UNCHANGED database

\* the user types into an input element
EditInput(ids) ==
    /\ UserEvent
    /\ \E id \in ids : \E s \in Typeable[id] :
         /\ inputs[id] # s
         /\ inputs' = [inputs EXCEPT ![id] = s]
    /\ last' = UserStep
    /\ UNCHANGED <<session, db, today, activeTab, dailyData, weights, qDaily,
                   qWeights, report, display, weightHistory, applied>>
    /\ UNCHANGED calendar
    /\ UNCHANGED database

\* click on a nav item: showTab(tabId), renderContent(tabId)
ClickTab(tabs) ==
    /\ UserEvent
    /\ session = "ready"
    /\ \E tabId \in tabs :
         /\ activeTab' = tabId
         /\ tabId = "dashboard" => Len(qDaily) < MaxInFlight
         /\ tabId = "trackers" => Len(qWeights) < MaxInFlight
         /\ qDaily' = IF tabId = "dashboard"
                      THEN RenderDaily(qDaily, today) ELSE qDaily
         /\ qWeights' = IF tabId = "trackers"
                        THEN RenderWeights(qWeights) ELSE qWeights
         /\ todayWorkoutSummary' = IF tabId = "dashboard"
                                   THEN renderTodayWorkout(zone, now)
                                   ELSE todayWorkoutSummary
         /\ weeklyScheduleDisplay' = IF tabId = "schedule"
                                     THEN renderWeeklySchedule(zone, now)
                                     ELSE weeklyScheduleDisplay
    /\ last' = UserStep
    /\ opens' = IF activeTab' \in {"dashboard", "trackers"}
                THEN EnsureOpen(db, opens) ELSE opens
    /\ UNCHANGED <<session, db, today, inputs, dailyData, weights, report,
                   display, weightHistory, applied, now, zone, objectStores>>

\* click on Save Today's Progress
ClickSaveDaily ==
    /\ UserEvent
    /\ session = "ready"
    /\ Len(qDaily) < MaxInFlight
    /\ LET data == DailyFormData(inputs) IN
       qDaily' = Append(Overlapped(qDaily, today),
                        saveDailyData("daily", today, data, data, <<>>,
                                      NoneInFlight(qDaily, today)))
    /\ last' = UserStep
    /\ UNCHANGED <<session, db, today, activeTab, inputs, dailyData, weights,
                   qWeights, report, display, weightHistory, applied>>
    /\ UNCHANGED calendar
    /\ opens' = EnsureOpen(db, opens)
    /\ UNCHANGED objectStores

\* click on Save Macros with at least one non-zero macro
ClickSaveMacros ==
    /\ UserEvent
    /\ session = "ready"
    /\ Len(qDaily) < MaxInFlight
    /\ AnyMacro(MacroFormData(inputs))
    /\ qDaily' = Append(Overlapped(qDaily, today),
                        getDailyData("macro", today, MacroFormData(inputs),
                                     NoneInFlight(qDaily, today)))
    /\ last' = UserStep
    /\ UNCHANGED <<session, db, today, activeTab, inputs, dailyData, weights,
                   qWeights, report, display, weightHistory, applied>>
    /\ UNCHANGED calendar
    /\ opens' = EnsureOpen(db, opens)
    /\ UNCHANGED objectStores

\* click on Save Macros with no macro entered
ClickSaveMacrosRefused ==
    /\ UserEvent
    /\ session = "ready"
    /\ ~AnyMacro(MacroFormData(inputs))
    /\ report' = "Please enter at least one macro value."
    /\ last' = RefusedStep("macro")
    /\ UNCHANGED <<session, db, today, activeTab, inputs, dailyData, weights,
                   qDaily, qWeights, display, weightHistory, applied>>
    /\ UNCHANGED calendar
    /\ UNCHANGED database

\* a test that lets a zero weight through
ValidWeightOrZero(weight) == weight # <<>> /\ weight[1] >= 0

\* weight > 0, false for NaN
ValidWeight(weight) == weight # <<>> /\ weight[1] > 0

\* click on Save Weight with weight > 0
ClickSaveWeight ==
    /\ UserEvent
    /\ session = "ready"
    /\ Len(qWeights) < MaxInFlight
    /\ LET weight == parseFloat(inputs["weightInput"]) IN
         /\ ValidWeight(weight)
         /\ qWeights' = Append(qWeights, saveWeight(today, weight[1]))
    /\ last' = UserStep
    /\ UNCHANGED <<session, db, today, activeTab, inputs, dailyData, weights,
                   qDaily, report, display, weightHistory, applied>>
    /\ UNCHANGED calendar
    /\ opens' = EnsureOpen(db, opens)
    /\ UNCHANGED objectStores

\* click on Save Weight with any other value
ClickSaveWeightRefused ==
    /\ UserEvent
    /\ session = "ready"
    /\ ~ValidWeight(parseFloat(inputs["weightInput"]))
    /\ report' = "Please enter a valid weight."
    /\ last' = RefusedStep("weight")
    /\ UNCHANGED <<session, db, today, activeTab, inputs, dailyData, weights,
                   qDaily, qWeights, display, weightHistory, applied>>
    /\ UNCHANGED calendar
    /\ UNCHANGED database

\* ----------------------------------------------------------- alert texts
SavedAlert(cont) ==
    CASE cont = "daily"  -> "Daily data saved!"
      [] cont = "macro"  -> "Macros saved!"
      [] cont = "weight" -> "Weight saved!"

\* the catch blocks: 'Error saving ...: ' + error
ErrorAlert(cont, op) ==
    CASE cont = "daily"  -> "Error saving daily data: Error saving daily data"
      [] cont = "macro" /\ op = "get"
                         -> "Error saving macros: Error getting daily data"
      [] cont = "macro"  -> "Error saving macros: Error saving daily data"
      [] cont = "weight" -> "Error saving weight: Error saving weight"

SavedAlerts == {SavedAlert(c) : c \in {"daily", "macro", "weight"}}
ErrorAlerts == {ErrorAlert("daily", "put"), ErrorAlert("macro", "get"),
                ErrorAlert("macro", "put"), ErrorAlert("weight", "put")}

\* --------------------------------------------- Save Macros, after the get
\* the get succeeded: saveDailyData(today, { ...existingData, ...macros })
MacroAfterRead(q, tx, existing) ==
    Append(Tail(q),
           saveDailyData("macro", tx.date, tx.data,
                         MergeMacros(existing, tx.data), existing, tx.alone))

\* a handler that writes the macros although the get failed
MacroAfterReadErrorWriting(q, tx) == MacroAfterRead(q, tx, <<>>)

\* the get failed: the catch block, no put
MacroAfterReadError(q, tx) == Tail(q)

\* ------------------------------------------------- the dailyData requests
HeadIs(q, op, conts) ==
    /\ q # <<>>
    /\ Head(q).op = op
    /\ Head(q).cont \in conts

\* store.get of the Save Macros handler, request.onsuccess
MacroGetOk ==
    /\ HeadIs(qDaily, "get", {"macro"})
    /\ LET tx == Head(qDaily)
           existing == Lookup(dailyData, tx.date)
       IN /\ qDaily' = MacroAfterRead(qDaily, tx, existing)
          /\ last' = Step("get", tx, "ok", existing, <<>>)
    /\ UNCHANGED <<session, db, today, activeTab, inputs, dailyData, weights,
                   qWeights, report, display, weightHistory, applied, events>>
    /\ UNCHANGED calendar
    /\ opens' = EnsureOpen(db, opens)
    /\ UNCHANGED objectStores

\* store.get of the Save Macros handler, request.onerror
MacroGetError ==
    /\ HeadIs(qDaily, "get", {"macro"})
    /\ LET tx == Head(qDaily) IN
          /\ qDaily' = MacroAfterReadError(qDaily, tx)
          /\ report' = ErrorAlert("macro", "get")
          /\ last' = Step("get", tx, "reqerror", Lookup(dailyData, tx.date),
                          <<>>)
    /\ UNCHANGED <<session, db, today, activeTab, inputs, dailyData, weights,
                   qWeights, display, weightHistory, applied, events>>
    /\ UNCHANGED calendar
    /\ UNCHANGED database

\* store.get of renderDashboardData, request.onsuccess
RenderGetOk ==
    /\ HeadIs(qDaily, "get", {"render"})
    /\ LET tx == Head(qDaily)
           data == Lookup(dailyData, tx.date)
       IN /\ display' = Summary(data)
          /\ inputs' = Prefill(inputs, data)
          /\ last' = Step("get", tx, "ok", data, <<>>)
    /\ qDaily' = Tail(qDaily)
    /\ UNCHANGED <<session, db, today, activeTab, dailyData, weights,
                   qWeights, report, weightHistory, applied, events>>
    /\ UNCHANGED calendar
    /\ UNCHANGED database

\* store.get of renderDashboardData, request.onerror: the rejection has no
\* handler
RenderGetError ==
    /\ HeadIs(qDaily, "get", {"render"})
    /\ LET tx == Head(qDaily) IN
          last' = Step("get", tx, "reqerror", Lookup(dailyData, tx.date),
                       <<>>)
    /\ qDaily' = Tail(qDaily)
    /\ UNCHANGED <<session, db, today, activeTab, inputs, dailyData, weights,
                   qWeights, report, display, weightHistory, applied, events>>
    /\ UNCHANGED calendar
    /\ UNCHANGED database

\* the save named by a put
Signature(tx) == <<[cont |-> tx.cont, data |-> tx.data]>>

\* request.onsuccess of the put of saveDailyData: the handler alerts and
\* refreshes; the transaction then commits ("ok") or aborts ("commitabort")
DailyPutSuccess(outcome) ==
    /\ LET tx == Head(qDaily) IN
          /\ report' = SavedAlert(tx.cont)
          /\ qDaily' = RenderDaily(Tail(qDaily), tx.date)
          /\ dailyData' = IF outcome = "ok"
                          THEN StorePut(dailyData, tx.rec) ELSE dailyData
          /\ applied' = IF outcome = "ok"
                        THEN [applied EXCEPT ![tx.date] = Signature(tx)]
                        ELSE applied
          /\ last' = Step("put", tx, outcome, Lookup(dailyData, tx.date),
                          applied[tx.date])
    /\ UNCHANGED <<session, db, today, activeTab, inputs, weights, qWeights,
                   display, weightHistory, events>>
    /\ UNCHANGED calendar
    /\ opens' = EnsureOpen(db, opens)
    /\ UNCHANGED objectStores

\* store.put of saveDailyData succeeds and its transaction commits
DailyPutOk ==
    /\ HeadIs(qDaily, "put", {"daily", "macro"})
    /\ DailyPutSuccess("ok")

\* store.put of saveDailyData succeeds and its transaction aborts at commit
DailyPutCommitAbort ==
    /\ HeadIs(qDaily, "put", {"daily", "macro"})
    /\ DailyPutSuccess("commitabort")

\* store.put of saveDailyData: request.onerror
DailyPutError ==
    /\ HeadIs(qDaily, "put", {"daily", "macro"})
    /\ LET tx == Head(qDaily) IN
          /\ report' = ErrorAlert(tx.cont, "put")
          /\ last' = Step("put", tx, "reqerror", Lookup(dailyData, tx.date),
                          <<>>)
    /\ qDaily' = Tail(qDaily)
    /\ UNCHANGED <<session, db, today, activeTab, inputs, dailyData, weights,
                   qWeights, display, weightHistory, applied, events>>
    /\ UNCHANGED calendar
    /\ UNCHANGED database

\* --------------------------------------------------- the weights requests
\* request.onsuccess of the put of saveWeight, then commit or abort
WeightPutSuccess(outcome) ==
    /\ LET tx == Head(qWeights) IN
          /\ report' = SavedAlert("weight")
          /\ qWeights' = RenderWeights(Tail(qWeights))
          /\ weights' = IF outcome = "ok"
                        THEN StorePut(weights, tx.rec) ELSE weights
          /\ last' = Step("put", tx, outcome, Lookup(weights, tx.date), <<>>)
    /\ UNCHANGED <<session, db, today, activeTab, inputs, dailyData, qDaily,
                   display, weightHistory, applied, events>>
    /\ UNCHANGED calendar
    /\ opens' = EnsureOpen(db, opens)
    /\ UNCHANGED objectStores

\* store.put of saveWeight succeeds and its transaction commits
WeightPutOk ==
    /\ HeadIs(qWeights, "put", {"weight"})
    /\ WeightPutSuccess("ok")

\* store.put of saveWeight succeeds and its transaction aborts at commit
WeightPutCommitAbort ==
    /\ HeadIs(qWeights, "put", {"weight"})
    /\ WeightPutSuccess("commitabort")

\* store.put of saveWeight: request.onerror
WeightPutError ==
    /\ HeadIs(qWeights, "put", {"weight"})
    /\ LET tx == Head(qWeights) IN
          /\ report' = ErrorAlert("weight", "put")
          /\ last' = Step("put", tx, "reqerror", Lookup(weights, tx.date),
                          <<>>)
    /\ qWeights' = Tail(qWeights)
    /\ UNCHANGED <<session, db, today, activeTab, inputs, dailyData, weights,
                   qDaily, display, weightHistory, applied, events>>
    /\ UNCHANGED calendar
    /\ UNCHANGED database

\* a weight history that empties the store once it has listed it
HistoryGetAllOkClearing ==
    /\ HeadIs(qWeights, "getAll", {"history"})
    /\ weightHistory' = SortDesc(GetAll(weights))
    /\ weights' = <<>>
    /\ last' = Step("getAll", Head(qWeights), "ok", <<>>, <<>>)
    /\ qWeights' = Tail(qWeights)
    /\ UNCHANGED <<session, db, today, activeTab, inputs, dailyData,
                   qDaily, report, display, applied, events>>
    /\ UNCHANGED calendar
    /\ UNCHANGED database

\* store.getAll of renderWeightHistory, request.onsuccess
HistoryGetAllOk ==
    /\ HeadIs(qWeights, "getAll", {"history"})
    /\ weightHistory' = SortDesc(GetAll(weights))
    /\ last' = Step("getAll", Head(qWeights), "ok", <<>>, <<>>)
    /\ qWeights' = Tail(qWeights)
    /\ UNCHANGED <<session, db, today, activeTab, inputs, dailyData, weights,
                   qDaily, report, display, applied, events>>
    /\ UNCHANGED calendar
    /\ UNCHANGED database

\* store.getAll of renderWeightHistory, request.onerror: the rejection has
\* no handler
HistoryGetAllError ==
    /\ HeadIs(qWeights, "getAll", {"history"})
    /\ last' = Step("getAll", Head(qWeights), "reqerror", <<>>, <<>>)
    /\ qWeights' = Tail(qWeights)
    /\ UNCHANGED <<session, db, today, activeTab, inputs, dailyData, weights,
                   qDaily, report, display, weightHistory, applied, events>>
    /\ UNCHANGED calendar
    /\ UNCHANGED database

\* ------------------------------------------------------------------ Next
Next ==
    \/ OpenDatabase(Tabs)
    \/ OpenDatabaseError
    \/ Tick
    \/ EditInput(InputIds)
    \/ ClickTab(Tabs)
    \/ ClickSaveDaily
    \/ ClickSaveMacros
    \/ ClickSaveMacrosRefused
    \/ ClickSaveWeight
    \/ ClickSaveWeightRefused
    \/ MacroGetOk
    \/ MacroGetError
    \/ RenderGetOk
    \/ RenderGetError
    \/ DailyPutOk
    \/ DailyPutCommitAbort
    \/ DailyPutError
    \/ WeightPutOk
    \/ WeightPutCommitAbort
    \/ WeightPutError
    \/ HistoryGetAllOk
    \/ HistoryGetAllError

Spec == Init /\ [][Next]_vars

\* The dashboard, the daily inputs and the dailyData store on their own.
\* The weights handlers touch none of inputs' daily fields, dailyData or
\* qDaily, and the other tabs start no dailyData request.
NextDaily ==
    \/ OpenDatabase({"dashboard"})
    \/ OpenDatabaseError
    \/ Tick
    \/ EditInput(DailyInputs)
    \/ ClickTab({"dashboard"})
    \/ ClickSaveDaily
    \/ ClickSaveMacros
    \/ ClickSaveMacrosRefused
    \/ MacroGetOk
    \/ MacroGetError
    \/ RenderGetOk
    \/ RenderGetError
    \/ DailyPutOk
    \/ DailyPutCommitAbort
    \/ DailyPutError

SpecDaily == Init /\ [][NextDaily]_vars

\* The trackers tab, the weight input and the weights store on their own,
\* with the page's initial renderDashboardData.
NextWeights ==
    \/ OpenDatabase({"trackers"})
    \/ OpenDatabaseError
    \/ Tick
    \/ EditInput({"weightInput"})
    \/ ClickTab({"trackers"})
    \/ ClickSaveWeight
    \/ ClickSaveWeightRefused
    \/ RenderGetOk
    \/ RenderGetError
    \/ WeightPutOk
    \/ WeightPutCommitAbort
    \/ WeightPutError
    \/ HistoryGetAllOk
    \/ HistoryGetAllError

SpecWeights == Init /\ [][NextWeights]_vars

\* The dashboard and schedule tabs on a host in any zone at any instant.
NextCalendar ==
    \/ OpenDatabase({"dashboard", "schedule"})
    \/ OpenDatabaseError
    \/ Tick
    \/ ClickTab({"dashboard", "schedule"})
    \/ RenderGetOk
    \/ RenderGetError

SpecCalendar == InitCalendar /\ [][NextCalendar]_vars

\* First and later visits: the tabs that render, the daily save of the form
\* as it was loaded, and the weight save.
NextSessions ==
    \/ OpenDatabase({"dashboard", "trackers"})
    \/ OpenDatabaseError
    \/ EditInput({"weightInput"})
    \/ ClickTab({"dashboard", "schedule", "trackers"})
    \/ ClickSaveDaily
    \/ ClickSaveWeight
    \/ RenderGetOk
    \/ RenderGetError
    \/ DailyPutOk
    \/ DailyPutError
    \/ WeightPutOk
    \/ WeightPutError
    \/ HistoryGetAllOk
    \/ HistoryGetAllError

SpecSessions == InitSessions /\ [][NextSessions]_vars

\* ---------------------------------------------------------------- claims
\* property f of an optional record, 0 when the record or f is missing
FieldOrZero(r, f) == IF r # <<>> /\ f \in DOMAIN r[1] THEN r[1][f] ELSE 0

\* property f of an optional record, <<>> when the record or f is missing
Field(r, f) == IF r # <<>> /\ f \in DOMAIN r[1] THEN <<r[1][f]>> ELSE <<>>

\* the step just taken was the put of a dailyData save
PutDone(conts, outcomes) ==
    /\ last.act = "put"
    /\ last.cont \in conts
    /\ last.outcome \in outcomes

Now(d) == Lookup(dailyData, d)

\* C1: after a Save Today's Progress whose write committed, the calories,
\* protein, carbs and fat stored for the date are those stored before the
\* write (0 when there was no record), whatever the input fields held.
C1_DailySaveKeepsMacros ==
    PutDone({"daily"}, {"ok"}) =>
        \A f \in MacroFields :
            FieldOrZero(Now(last.date), f) = FieldOrZero(last.prev, f)

\* C2: after a Save Macros that reported success with no other save on the
\* date in flight during it, the stored record has the submitted macros and
\* the steps and water stored before the save.
C2_MacroSaveThenGet ==
    (PutDone({"macro"}, {"ok", "commitabort"}) /\ last.alone) =>
        /\ \A f \in MacroFields :
              Field(Now(last.date), f) = <<last.data[f]>>
        /\ \A f \in {"steps", "water"} :
              Field(Now(last.date), f) = Field(last.prev, f)

\* the same guarantee for a Save Macros whose transaction committed
MacroSaveCommittedThenGet ==
    (PutDone({"macro"}, {"ok"}) /\ last.alone) =>
        /\ \A f \in MacroFields :
              Field(Now(last.date), f) = <<last.data[f]>>
        /\ \A f \in {"steps", "water"} :
              Field(Now(last.date), f) = Field(last.prev, f)

\* C3: when a Save Macros writes, the record under its date is still the
\* one its get returned: no other save wrote the date between its read and
\* its write.
C3_NoInterleavedWrite ==
    PutDone({"macro"}, {"ok"}) => last.prev = last.read

\* C4: of two saves on a date, one after the other has completed, a Save
\* Today's Progress and a Save Macros in either order, the record stored
\* after the second holds the steps and water of the former and the macros
\* of the latter.
C4_MergeLaw ==
    /\ (PutDone({"daily"}, {"ok"}) /\ last.alone /\ last.prior # <<>>
          /\ last.prior[1].cont = "macro") =>
         /\ \A f \in {"steps", "water"} :
               Field(Now(last.date), f) = <<last.data[f]>>
         /\ \A f \in MacroFields :
               Field(Now(last.date), f) = <<last.prior[1].data[f]>>
    /\ (PutDone({"macro"}, {"ok"}) /\ last.alone /\ last.prior # <<>>
          /\ last.prior[1].cont = "daily") =>
         /\ \A f \in {"steps", "water"} :
               Field(Now(last.date), f) = <<last.prior[1].data[f]>>
         /\ \A f \in MacroFields :
               Field(Now(last.date), f) = <<last.data[f]>>

\* C5: whenever a save alerts 'saved!', the record it put is in the store.
C5_SavedMeansStored ==
    (PutDone({"daily", "macro"}, {"ok", "commitabort", "reqerror"})
       /\ report = SavedAlert(last.cont)) =>
        Now(last.date) = <<last.rec>>

\* C6: when the get of a Save Macros fails, no put is issued, the store is
\* unchanged and the error is alerted.
C6_FailClosedOnRead ==
    [][(last'.act = "get" /\ last'.cont = "macro"
          /\ last'.outcome = "reqerror") =>
        /\ qDaily' = Tail(qDaily)
        /\ dailyData' = dailyData
        /\ report' = ErrorAlert("macro", "get")]_vars

C6_Witness ==
    /\ last.act = "get"
    /\ last.cont = "macro"
    /\ last.outcome = "reqerror"
    /\ last.prev # <<>>
    /\ Now(last.date) = last.prev
    /\ report = ErrorAlert("macro", "get")

\* C7: when the write of a daily or macro save fails (the request errors
\* or its transaction aborts), an error is alerted and the record under the
\* date is the one stored before.
C7_FailedWriteReported ==
    PutDone({"daily", "macro"}, {"reqerror", "commitabort"}) =>
        /\ report = ErrorAlert(last.cont, "put")
        /\ Now(last.date) = last.prev

\* C8: after any get, put or getAll that failed, an error has been alerted.
C8_FailureSurfaced ==
    (last.act \in {"get", "put", "getAll"} /\ last.outcome = "reqerror") =>
        report \in ErrorAlerts

\* C9: a step of a save on one date leaves the record, or the absence of a
\* record, of every other date as it was.
C9_OtherDatesUntouched ==
    [][\A d2 \in Dates :
          last'.date # d2 => Lookup(dailyData', d2) = Lookup(dailyData, d2)]_vars

C9_Witness ==
    /\ PutDone({"daily", "macro"}, {"ok"})
    /\ \E d2 \in Dates : d2 # last.date /\ Now(d2) # <<>>
    /\ Now(last.date) = <<last.rec>>

\* C10: a save whose write commits right after the same save (same kind,
\* date and submitted values) committed, the first having completed before
\* the second started, leaves the stored record as the first left it.
C10_Idempotent ==
    (PutDone({"daily", "macro"}, {"ok"}) /\ last.alone
       /\ last.prior = <<[cont |-> last.cont, data |-> last.data]>>) =>
        Now(last.date) = last.prev

C10_Witness ==
    /\ PutDone({"macro"}, {"ok"})
    /\ last.alone
    /\ last.prior = <<[cont |-> last.cont, data |-> last.data]>>
    /\ Field(last.prev, "steps") # <<>>

\* C11: every stored daily record has non-negative steps, water, calories,
\* protein, carbs and fat: a negative or non-numeric entry is stored as 0.
C11_StoredFieldsNonNegative ==
    \A d \in DOMAIN dailyData :
        \A f \in DOMAIN dailyData[d] \ {"date"} : dailyData[d][f] >= 0

\* C12: no Save Today's Progress and no Save Macros is refused: empty,
\* non-numeric or zero fields are saved as 0.
C12_NoDailyOrMacroSaveRefused ==
    ~(last.act = "refused" /\ last.cont \in {"daily", "macro"})

\* C13: a Save Weight whose value is zero, negative or not a number is
\* refused: it issues no put and leaves the weights store as it was; every
\* weight put or stored is greater than zero.
C13_InvalidWeightRefused ==
    [][/\ (last'.act = "refused" /\ last'.cont = "weight") =>
             /\ ~(parseFloat(inputs["weightInput"]) # <<>>
                    /\ parseFloat(inputs["weightInput"])[1] > 0)
             /\ qWeights' = qWeights
             /\ weights' = weights
       /\ (Len(qWeights') > Len(qWeights)
             /\ qWeights'[Len(qWeights')].op = "put") =>
               /\ parseFloat(inputs["weightInput"]) # <<>>
               /\ parseFloat(inputs["weightInput"])[1] > 0
       /\ \A i \in 1..Len(qWeights') :
             qWeights'[i].op = "put" => qWeights'[i].rec.weight > 0
       /\ \A d \in DOMAIN weights' : weights'[d].weight > 0]_vars

C13_Witness ==
    /\ last.act = "refused"
    /\ last.cont = "weight"
    /\ inputs["weightInput"] \in {"0", "-1"}
    /\ weights # <<>>
    /\ qWeights = <<>>

\* C14: getAll returns at most one sample per date; a Save Weight that
\* commits on a date puts the new weight in place of the sample of that
\* date, adds no second entry and leaves the samples of the other dates.
C14_OneSamplePerDate ==
    [][/\ \A r1, r2 \in GetAll(weights') : r1.date = r2.date => r1 = r2
       /\ (last'.act = "put" /\ last'.cont = "weight"
             /\ last'.outcome = "ok") =>
            /\ GetAll(weights') =
                 {r \in GetAll(weights) : r.date # last'.date}
                   \cup {[date |-> last'.date, weight |-> last'.data.weight]}
            /\ \A d2 \in Dates :
                 d2 # last'.date => Lookup(weights', d2) = Lookup(weights, d2)]_vars

C14_Witness ==
    /\ last.act = "put"
    /\ last.cont = "weight"
    /\ last.outcome = "ok"
    /\ last.prev # <<>>
    /\ last.prev[1].weight # last.data.weight
    /\ GetAll(weights) = {[date |-> last.date, weight |-> last.data.weight]}

\* ---------------------------------------------------------------- calendar
\* the coordinate getWeekAndDay returns on this host at this instant
Coordinate == getWeekAndDay(zone, now, PROGRAM_START_DATE)

\* the host's current calendar date, in days from the program start date
CurrentDate == LocalDay(zone, now) - PROGRAM_START_DATE

\* C15: on the start date the coordinate is (week 1, day 1), on the day
\* before it is NotStarted (week 0, day 0), seven days after the start date
\* it is (week 2, day 1), at every time of day.
C15_CalendarBoundaries ==
    /\ CurrentDate = 0 => Coordinate = [week |-> 1, day |-> 1]
    /\ CurrentDate = 0 - 1 => Coordinate = [week |-> 0, day |-> 0]
    /\ CurrentDate = DaysPerWeek => Coordinate = [week |-> 2, day |-> 1]

\* C16: on or after the start date, with diffDays the whole days elapsed
\* since the start date, week = diffDays \div 7 + 1 and day = diffDays % 7 + 1
\* (so week >= 1, day in 1..7, (week-1)*7 + (day-1) = diffDays), and six
\* days after the start the today view shows the Week 1 / Day 7 rest entry.
C16_WeekAndDayOfElapsedDays ==
    CurrentDate >= 0 =>
        /\ Coordinate.week = CurrentDate \div DaysPerWeek + 1
        /\ Coordinate.day = (CurrentDate % DaysPerWeek) + 1
        /\ Coordinate.week >= 1
        /\ Coordinate.day \in 1..DaysPerWeek
        /\ (Coordinate.week - 1) * DaysPerWeek + (Coordinate.day - 1)
              = CurrentDate
        /\ CurrentDate = 6 =>
              renderTodayWorkout(zone, now)
                 = TodayView("workout", <<1>>, <<7>>, "Rest", 0)

\* what C16 keeps of the arithmetic alone: the coordinate getWeekAndDay
\* returns is the one of the diffDays it computed.
WeekAndDayOfDiffDays ==
    Coordinate # [week |-> 0, day |-> 0] =>
        /\ Coordinate.week >= 1
        /\ Coordinate.day \in 1..DaysPerWeek
        /\ (Coordinate.week - 1) * DaysPerWeek + (Coordinate.day - 1)
              = DiffDays(zone, now, PROGRAM_START_DATE)

\* the hours between the two normalized midnights
DiffTime ==
    Abs(setHours0(zone, now) - setHours0(zone, DateParse(PROGRAM_START_DATE)))

\* the calendar days between the two normalized midnights
DaysBetween ==
    LocalDay(zone, setHours0(zone, now))
       - LocalDay(zone, setHours0(zone, DateParse(PROGRAM_START_DATE)))

\* C17: when the two normalized midnights are N whole days plus or minus
\* one hour apart (a daylight-saving transition lies between them),
\* diffDays is N and the coordinate is the one of calendar day N.
C17_DaylightSavingDoesNotShift ==
    (setHours0(zone, now) >= setHours0(zone, DateParse(PROGRAM_START_DATE))
       /\ DiffTime \in {DaysBetween * HoursPerDay - 1,
                        DaysBetween * HoursPerDay + 1}) =>
        /\ DiffDays(zone, now, PROGRAM_START_DATE) = DaysBetween
        /\ Coordinate = [week |-> DaysBetween \div DaysPerWeek + 1,
                         day |-> (DaysBetween % DaysPerWeek) + 1]

\* C18: when the computed week is greater than 26, a render of the today
\* view (page load, dashboard tab) and a render of the weekly view
\* (schedule tab) give the completed text and no workout, whatever
\* WORKOUT_PLAN holds: no view changes to anything else.
C18_CompletedBeyondLastWeek ==
    [][Coordinate.week > TotalWeeks =>
         /\ ((session = "loading" /\ session' = "ready")
               \/ ClickTab({"dashboard"})) =>
              todayWorkoutSummary' =
                 TodayView("completedOrNotStarted", <<Coordinate.week>>,
                           <<Coordinate.day>>, "", 0)
         /\ ClickTab({"schedule"}) =>
              weeklyScheduleDisplay' = WeekView("completedOrNotStarted", <<>>)
         /\ todayWorkoutSummary' # todayWorkoutSummary =>
              todayWorkoutSummary'.kind = "completedOrNotStarted"
         /\ weeklyScheduleDisplay' # weeklyScheduleDisplay =>
              weeklyScheduleDisplay'.kind = "completedOrNotStarted"]_vars

C18_Witness ==
    /\ Coordinate.week > TotalWeeks
    /\ todayWorkoutSummary =
          TodayView("completedOrNotStarted", <<Coordinate.week>>,
                    <<Coordinate.day>>, "", 0)
    /\ weeklyScheduleDisplay = WeekView("completedOrNotStarted", <<>>)

\* the today view is rendered in this step
RendersToday ==
    (session = "loading" /\ session' = "ready") \/ ClickTab({"dashboard"})

\* WORKOUT_PLAN has no entry at the coordinate
EntryAbsent ==
    \/ Coordinate.week \notin DOMAIN WORKOUT_PLAN
    \/ Coordinate.day \notin DOMAIN WORKOUT_PLAN[Coordinate.week]

\* C19: for a coordinate with week in 1..26 and no entry in WORKOUT_PLAN
\* (the day or the whole week is missing), the today view shows the
\* rest-or-unplanned text, which is neither the completed/not-started text
\* nor a workout of type Rest, and prints both the week and the day.
C19_AbsentEntryIsRestOrUnplanned ==
    [][(RendersToday /\ Coordinate.week \in 1..TotalWeeks /\ EntryAbsent) =>
          todayWorkoutSummary' =
             TodayView("noWorkoutPlanned", <<Coordinate.week>>,
                       <<Coordinate.day>>, "", 0)]_vars

\* C20: for a week in 1..26 the weekly view holds exactly 7 rows, for the
\* days 1, 2, ..., 7 in this order, each with the type of its entry or the
\* sentinel 'Rest/Active Recovery' when the entry is missing.
C20_WeekHasSevenDays ==
    [][(ClickTab({"schedule"}) /\ Coordinate.week \in 1..TotalWeeks) =>
          /\ weeklyScheduleDisplay'.kind = "days"
          /\ Len(weeklyScheduleDisplay'.rows) = DaysPerWeek
          /\ \A i \in 1..DaysPerWeek :
               /\ weeklyScheduleDisplay'.rows[i].day = i
               /\ weeklyScheduleDisplay'.rows[i].type =
                    IF Coordinate.week \in DOMAIN WORKOUT_PLAN
                         /\ i \in DOMAIN WORKOUT_PLAN[Coordinate.week]
                    THEN WORKOUT_PLAN[Coordinate.week][i].type
                    ELSE "Rest/Active Recovery"]_vars

\* what holds of C20: a week that WORKOUT_PLAN holds is shown as 7 rows in
\* the order of the days.
PlannedWeekHasSevenDays ==
    [][(ClickTab({"schedule"}) /\ Coordinate.week \in DOMAIN WORKOUT_PLAN) =>
          /\ weeklyScheduleDisplay'.kind = "days"
          /\ Len(weeklyScheduleDisplay'.rows) = DaysPerWeek
          /\ \A i \in 1..DaysPerWeek :
               /\ weeklyScheduleDisplay'.rows[i].day = i
               /\ weeklyScheduleDisplay'.rows[i].type =
                    WORKOUT_PLAN[Coordinate.week][i].type]_vars

\* the instants of the host's current date
SameDate ==
    {t \in setHours0(zone, now)..(setHours0(zone, now) + HoursPerDay) :
        LocalDay(zone, t) = LocalDay(zone, now)}

\* the today view and the weekly view show the same resolution: the same
\* outcome, the same week, and the one day marked current in the weekly
\* view is the day of the today view, with the same type
ViewsAgree(todayView, weekView) ==
    /\ weekView.kind = "completedOrNotStarted"
          <=> todayView.kind = "completedOrNotStarted"
    /\ weekView.kind = "noPlan" <=> todayView.kind = "noWeekData"
    /\ weekView.kind = "days"
          <=> todayView.kind \in {"workout", "noWorkoutPlanned"}
    /\ weekView.kind = "days" =>
         /\ weekView.rows[1].date =
               LocalDay(zone, DateParse(PROGRAM_START_DATE))
                  + (todayView.week[1] - 1) * DaysPerWeek
         /\ \A i \in 1..Len(weekView.rows) :
               weekView.rows[i].current <=> i = todayView.day[1]
         /\ todayView.day[1] \in 1..Len(weekView.rows)
         /\ todayView.kind = "workout" =>
               weekView.rows[todayView.day[1]].type = todayView.type

\* C21: the resolution of a page load is the one of every time of day of
\* its current date, and a view rendered while the other view is the one
\* of the current date agrees with it: the day marked current in the weekly
\* view is the day of the today view, in the same week.
C21_ViewsNeverDiverge ==
    [][/\ (session = "loading" /\ session' = "ready") =>
            \A t \in SameDate :
               /\ getWeekAndDay(zone, t, PROGRAM_START_DATE) = Coordinate
               /\ renderTodayWorkout(zone, t) = todayWorkoutSummary'
               /\ renderWeeklySchedule(zone, t)
                     = renderWeeklySchedule(zone, now)
       /\ (ClickTab({"schedule"})
             /\ todayWorkoutSummary = renderTodayWorkout(zone, now)) =>
            ViewsAgree(todayWorkoutSummary', weeklyScheduleDisplay')
       /\ (ClickTab({"dashboard"})
             /\ weeklyScheduleDisplay = renderWeeklySchedule(zone, now)) =>
            ViewsAgree(todayWorkoutSummary', weeklyScheduleDisplay')]_vars

C21_Witness ==
    /\ activeTab = "schedule"
    /\ todayWorkoutSummary.kind = "workout"
    /\ weeklyScheduleDisplay.kind = "days"
    /\ todayWorkoutSummary = renderTodayWorkout(zone, now)
    /\ weeklyScheduleDisplay = renderWeeklySchedule(zone, now)
    /\ \E i \in 1..DaysPerWeek :
          /\ weeklyScheduleDisplay.rows[i].current
          /\ <<i>> = todayWorkoutSummary.day

\* C22: the record a Save Macros puts when its get found no record for the
\* date has steps = 0 and water = 0 together with the submitted calories,
\* protein, carbs and fat.
C22_AbsentRecordMergedAsZeros ==
    (last.act = "put" /\ last.cont = "macro" /\ last.read = <<>>) =>
        /\ Field(<<last.rec>>, "steps") = <<0>>
        /\ Field(<<last.rec>>, "water") = <<0>>
        /\ \A f \in MacroFields : Field(<<last.rec>>, f) = <<last.data[f]>>

\* what holds of C22: that record has the date and the submitted macros and
\* nothing else, and the Daily Summary shows its steps and water as 0.
AbsentRecordMergedAsMacrosOnly ==
    (last.act = "put" /\ last.cont = "macro" /\ last.read = <<>>) =>
        /\ DOMAIN last.rec = MacroFields \cup {"date"}
        /\ \A f \in MacroFields : last.rec[f] = last.data[f]
        /\ Shown(<<last.rec>>, "steps") = "0"
        /\ Shown(<<last.rec>>, "water") = "0"

\* C23: the database is opened once per session, by the page load, and
\* before first use: a get, put or getAll is in flight only after the one
\* open succeeded and the stores exist; no later step opens again; and the
\* open of an existing database leaves its stores and records as they were.
C23_OpenedOnceBeforeUse ==
    [][/\ opens' <= 1
       /\ opens' # opens => session = "loading"
       /\ (qDaily' # <<>> \/ qWeights' # <<>>) =>
            /\ db'
            /\ session' = "ready"
            /\ opens' = 1
            /\ objectStores' = ObjectStoreNames
       /\ (session = "loading" /\ session' # "loading"
             /\ objectStores # {}) =>
            /\ objectStores' = objectStores
            /\ dailyData' = dailyData
            /\ weights' = weights]_vars

C23_Witness ==
    /\ opens = 1
    /\ session = "ready"
    /\ last.act = "put"
    /\ last.cont = "weight"
    /\ last.outcome = "ok"
    /\ dailyData \in ExistingDaily \ {<<>>}
    /\ 1 \in DOMAIN weights

\* a step that only reads or shows: a tab switch with its renders
\* (renderDashboardData, renderTodayWorkout, renderWeeklySchedule,
\* renderWeightHistory) or the completion of a render's get or getAll
ReadOnlyStep == ClickTab(Tabs) \/ last'.act \in {"get", "getAll"}

\* C24: a read-only step leaves dailyData and weights as they were; no step
\* removes a record, so the dates holding a record only grow; the stores
\* change only when the put of a save commits.
C24_ReadOnlyStepsKeepStores ==
    [][/\ ReadOnlyStep => (dailyData' = dailyData /\ weights' = weights)
       /\ DOMAIN dailyData \subseteq DOMAIN dailyData'
       /\ DOMAIN weights \subseteq DOMAIN weights'
       /\ (dailyData' # dailyData \/ weights' # weights) =>
             (last'.act = "put" /\ last'.outcome = "ok")]_vars

C24_Witness ==
    /\ dailyData # <<>>
    /\ weights # <<>>
    /\ weightHistory # <<>>
    /\ display # NoSummary
    /\ todayWorkoutSummary.kind = "workout"
    /\ weeklyScheduleDisplay.kind = "days"
    /\ last.act = "getAll"
    /\ last.outcome = "ok"

====
